---- MODULE Spec2Model ----
(***************************************************************************)
(* rustpay: the IBAN value type (src/iban/mod.rs) and its conversions      *)
(* (src/iban/from_implementations.rs).                                     *)
(*                                                                         *)
(* A Rust char is modelled by its Unicode scalar value, a u8 by 0..255, a  *)
(* String / &str by the sequence of its chars (its byte length is the sum  *)
(* of the UTF-8 lengths of the chars), a [char; 34] by a sequence of 34    *)
(* scalar values.  Sequences are 1-based: slot i of the source is i+1.     *)
(***************************************************************************)
EXTENDS Integers, Sequences, FiniteSets

VARIABLES
  pc,       \* "start": no value yet; "built": the caller holds an IBAN; "failed": the constructor returned Err
  origin,   \* which constructor produced the IBAN held
  mutated,  \* set_country has been applied to the IBAN held
  input,    \* the argument given to the constructor
  res,      \* the constructor's result: "Ok" or the error kind
  iban,     \* the IBAN held (34 slots), NoIBAN when there is none
  saved,    \* the IBAN (with its origin) whose converted form the constructor was given, NoSaved for a fresh input
  op,       \* the last operation performed
  out_seq,  \* the last String / Vec<u8> returned
  out_bool, \* the last bool returned
  out_len,  \* the last usize returned
  numeric_iban_str, \* is_valid's digit string (modulo loop, mod.rs:106-111)
  chunk_idx,        \* number of chunks the loop has consumed
  remainder,        \* the loop's remainder
  wide              \* the last value of remainder * 10^len + part_num, before % 97

vars == <<pc, origin, mutated, input, res, iban, saved, op, out_seq, out_bool, out_len,
          numeric_iban_str, chunk_idx, remainder, wide>>

ibanVars == <<pc, origin, mutated, input, res, iban, saved, op, out_seq, out_bool, out_len>>
modVars  == <<numeric_iban_str, chunk_idx, remainder, wide>>

(***************************************************************************)
(* Bounds of the model.                                                    *)
(***************************************************************************)
MaxRepeat == 36    \* longest run of one repeated char / byte given to a constructor
MaxTail   == 2     \* bytes placed after an embedded NUL in a byte-sequence input
MaxSeed   == 3     \* digit strings of the modulo loop: digit i is (a*i + c) % 10, a <= MaxSeed
MaxDigits == 68    \* longest digit string of the modulo loop (34 slots, two digits each)

(***************************************************************************)
(* Constants of the program.                                               *)
(***************************************************************************)
IBAN_SIZE  == 34   \* [char; 34]
CHUNK_SIZE == 9    \* chunks(9)
MODULUS    == 97   \* % 97
NUL        == 0    \* '\0'
SPACE      == 32   \* " "

\* IBAN length by country code: <<first char, second char, length>>
IBAN_LENGTHS ==
  << <<65, 76, 28>>, <<65, 68, 24>>, <<65, 84, 20>>, <<65, 90, 28>>, <<66, 72, 22>>, <<66, 69, 16>>,
     <<66, 65, 20>>, <<66, 82, 29>>, <<66, 71, 22>>, <<67, 82, 22>>, <<72, 82, 21>>, <<67, 89, 28>>,
     <<67, 90, 24>>, <<68, 75, 18>>, <<68, 79, 28>>, <<69, 69, 20>>, <<70, 73, 18>>, <<70, 82, 27>>,
     <<71, 69, 22>>, <<68, 69, 22>>, <<71, 73, 23>>, <<71, 82, 27>>, <<71, 76, 18>>, <<71, 84, 28>>,
     <<72, 85, 28>>, <<73, 83, 26>>, <<73, 69, 22>>, <<73, 76, 23>>, <<73, 84, 27>>, <<75, 90, 20>>,
     <<75, 87, 30>>, <<76, 86, 21>>, <<76, 66, 28>>, <<76, 73, 21>>, <<76, 84, 20>>, <<76, 85, 20>>,
     <<77, 75, 19>>, <<77, 84, 31>>, <<77, 82, 27>>, <<77, 85, 30>>, <<77, 67, 27>>, <<77, 68, 24>>,
     <<77, 69, 22>>, <<78, 76, 18>>, <<78, 79, 15>>, <<80, 75, 24>>, <<80, 83, 29>>, <<80, 76, 28>>,
     <<80, 84, 25>>, <<82, 79, 24>>, <<83, 77, 27>>, <<83, 65, 24>>, <<82, 83, 22>>, <<83, 75, 24>>,
     <<83, 73, 19>>, <<69, 83, 24>>, <<83, 69, 24>>, <<67, 72, 21>>, <<84, 78, 24>>, <<84, 82, 26>>,
     <<65, 69, 23>>, <<71, 66, 22>>, <<86, 71, 24>> >>

(***************************************************************************)
(* Literal inputs of the repository's tests (mod.rs:205-338).              *)
(***************************************************************************)
\* "GB82 WEST 1234 5698 7654 32"
V_GB82 ==
  <<71, 66, 56, 50, 32, 87, 69, 83, 84, 32, 49, 50, 51, 52, 32, 53, 54, 57, 56, 32, 55, 54, 53, 52, 32, 51, 50>>
\* "DE89 3704 0044 0532 0130 00"
V_DE89 ==
  <<68, 69, 56, 57, 32, 51, 55, 48, 52, 32, 48, 48, 52, 52, 32, 48, 53, 51, 50, 32, 48, 49, 51, 48, 32, 48, 48>>
\* "FR14 2004 1010 0505 0001 3M02 606"
V_FR14 ==
  <<70, 82, 49, 52, 32, 50, 48, 48, 52, 32, 49, 48, 49, 48, 32, 48, 53, 48, 53, 32, 48, 48, 48, 49, 32, 51, 77, 48, 50, 32, 54, 48, 54>>
\* "GR16 0110 1250 0000 0001 2300 695"
V_GR16 ==
  <<71, 82, 49, 54, 32, 48, 49, 49, 48, 32, 49, 50, 53, 48, 32, 48, 48, 48, 48, 32, 48, 48, 48, 49, 32, 50, 51, 48, 48, 32, 54, 57, 53>>
\* "DE51 2131 1231 5532 1234 42"
V_DE51 ==
  <<68, 69, 53, 49, 32, 50, 49, 51, 49, 32, 49, 50, 51, 49, 32, 53, 53, 51, 50, 32, 49, 50, 51, 52, 32, 52, 50>>
\* "GB54 AAAA BBBB CCCC DDDD EE"
V_GB54 ==
  <<71, 66, 53, 52, 32, 65, 65, 65, 65, 32, 66, 66, 66, 66, 32, 67, 67, 67, 67, 32, 68, 68, 68, 68, 32, 69, 69>>
\* "IB"
V_IB ==
  <<73, 66>>
\* "DD14 2004 1010 0505 0001 3M02 606"
V_DD14 ==
  <<68, 68, 49, 52, 32, 50, 48, 48, 52, 32, 49, 48, 49, 48, 32, 48, 53, 48, 53, 32, 48, 48, 48, 49, 32, 51, 77, 48, 50, 32, 54, 48, 54>>
\* "DE22 8472 162"
V_DE22 ==
  <<68, 69, 50, 50, 32, 56, 52, 55, 50, 32, 49, 54, 50>>
\* "NL66 RABO 9942 4087 54"
V_NL66 ==
  <<78, 76, 54, 54, 32, 82, 65, 66, 79, 32, 57, 57, 52, 50, 32, 52, 48, 56, 55, 32, 53, 52>>
\* "DE15500105174256634144"
V_DE15 ==
  <<68, 69, 49, 53, 53, 48, 48, 49, 48, 53, 49, 55, 52, 50, 53, 54, 54, 51, 52, 49, 52, 52>>
\* "AT140027100972005647"
V_AT14 ==
  <<65, 84, 49, 52, 48, 48, 50, 55, 49, 48, 48, 57, 55, 50, 48, 48, 53, 54, 52, 55>>
\* "invalid_iban"
V_invalid ==
  <<105, 110, 118, 97, 108, 105, 100, 95, 105, 98, 97, 110>>
\* "!§!§"
V_punct ==
  <<33, 167, 33, 167>>
\* "5123 1234 8373 1i28 asj23234234234234234dlk sa  832 912 9812"
V_long ==
  <<53, 49, 50, 51, 32, 49, 50, 51, 52, 32, 56, 51, 55, 51, 32, 49, 105, 50, 56, 32, 97, 115, 106, 50, 51, 50, 51, 52, 50, 51, 52, 50, 51, 52, 50, 51, 52, 50, 51, 52, 100, 108, 107, 32, 115, 97, 32, 32, 56, 51, 50, 32, 57, 49, 50, 32, 57, 56, 49, 50>>
\* "GB61BARC20031895173674"
V_GB61 ==
  <<71, 66, 54, 49, 66, 65, 82, 67, 50, 48, 48, 51, 49, 56, 57, 53, 49, 55, 51, 54, 55, 52>>
\* "DE91500105177266427249"
V_DE91 ==
  <<68, 69, 57, 49, 53, 48, 48, 49, 48, 53, 49, 55, 55, 50, 54, 54, 52, 50, 55, 50, 52, 57>>

(***************************************************************************)
(* Rust's char, str and integer primitives used by the source.             *)
(***************************************************************************)
\* char::is_ascii
is_ascii(c) == c < 128

\* char::is_ascii_alphanumeric
is_ascii_alphanumeric(c) == (c \in 48..57) \/ (c \in 65..90) \/ (c \in 97..122)

\* char::len_utf8: the number of bytes of the char in a String
len_utf8(c) == IF c < 128 THEN 1 ELSE IF c < 2048 THEN 2 ELSE IF c < 65536 THEN 3 ELSE 4

\* str::len: the length of a string in BYTES
RECURSIVE str_len(_)
str_len(s) ==
  IF s = <<>> THEN 0
  ELSE IF Len(s) = 1 THEN len_utf8(s[1])
  ELSE LET h == Len(s) \div 2
       IN str_len(SubSeq(s, 1, h)) + str_len(SubSeq(s, h + 1, Len(s)))

\* char::to_uppercase (Unicode): may yield several chars (223 = sharp s -> "SS"),
\* and maps two non-ASCII letters to ASCII ones (305 dotless i -> "I", 383 long s -> "S")
upper_char(c) ==
  IF c \in 97..122 THEN <<c - 32>>
  ELSE IF c = 223 THEN <<83, 83>>
  ELSE IF c = 181 THEN <<924>>
  ELSE IF c = 255 THEN <<376>>
  ELSE IF c \in 224..254 /\ c # 247 THEN <<c - 32>>
  ELSE IF c = 305 THEN <<73>>
  ELSE IF c = 383 THEN <<83>>
  ELSE <<c>>

\* str::to_uppercase
RECURSIVE to_uppercase(_)
to_uppercase(s) ==
  IF s = <<>> THEN <<>>
  ELSE IF Len(s) = 1 THEN upper_char(s[1])
  ELSE LET h == Len(s) \div 2
       IN to_uppercase(SubSeq(s, 1, h)) \o to_uppercase(SubSeq(s, h + 1, Len(s)))

\* str::replace(" ", "")
IsNotSpace(c) == c # SPACE
replace_space(s) == SelectSeq(s, IsNotSpace)

\* `b as char` for a u8: the scalar value with the same number (Latin-1)
u8_as_char(b) == b

\* `c as u8` for a char: truncation to the low 8 bits
char_as_u8(c) == c % 256

\* 10u128.pow(n), for the n the loop uses (n <= 9 < 2^31)
RECURSIVE pow10(_)
pow10(n) == IF n = 0 THEN 1 ELSE 10 * pow10(n - 1)

Err(kind) == [kind |-> kind, value |-> <<>>]
Ok(value) == [kind |-> "Ok", value |-> value]
NoIBAN    == <<>>
NoSaved   == [value |-> NoIBAN, origin |-> "none", mutated |-> FALSE]

(***************************************************************************)
(* impl IBAN (mod.rs:32-125)                                               *)
(***************************************************************************)
\* IBAN::new
new == [i \in 1..IBAN_SIZE |-> NUL]

\* IBAN::len: the slots before the first NUL
RECURSIVE len_from(_, _)
len_from(self, i) ==
  IF i > Len(self) THEN 0
  ELSE IF self[i] # NUL THEN 1 + len_from(self, i + 1)
  ELSE 0
len(self) == len_from(self, 1)

\* CountryCode::as_code (countrycodes.rs): the two letters of the code
CountryCodes == {"DE", "GB", "FR"}
as_code(country) ==
  CASE country = "DE" -> <<68, 69>>
    [] country = "GB" -> <<71, 66>>
    [] country = "FR" -> <<70, 82>>

\* IBAN::set_country
set_country(self, country) ==
  LET code == as_code(country)
  IN [self EXCEPT ![1] = code[1], ![2] = code[2]]

\* IBAN::to_string: the slots that are ASCII ('\0' is ASCII)
to_string(self) == SelectSeq(self, is_ascii)

\* IBAN_LENGTHS.iter().find(..).map(..): the length of the first entry with this code, -1 for None
find_length(country_code) ==
  LET found == {i \in 1..Len(IBAN_LENGTHS) :
                  <<IBAN_LENGTHS[i][1], IBAN_LENGTHS[i][2]>> = country_code}
  IN IF found = {} THEN -1
     ELSE IBAN_LENGTHS[CHOOSE i \in found : \A j \in found : i <= j][3]
expected_length(country_code) == find_length(country_code)

\* to_numeric with the letters' offset of 10 forgotten
to_numeric_no_offset(c) ==
  IF c \in 48..57 THEN <<c - 48>>
  ELSE IF c \in 65..90 THEN <<c - 65>>
  ELSE <<>>

\* the filter_map of is_valid: '0'..'9' to 0..9, 'A'..'Z' to 10..35, anything else dropped
to_numeric(c) ==
  IF c \in 48..57 THEN <<c - 48>>
  ELSE IF c \in 65..90 THEN <<c - 65 + 10>>
  ELSE <<>>
RECURSIVE numeric_iban_of(_)
numeric_iban_of(s) == IF s = <<>> THEN <<>> ELSE to_numeric(Head(s)) \o numeric_iban_of(Tail(s))

\* u8::to_string: the decimal digits of a number below 100
num_to_string(num) == IF num < 10 THEN <<num>> ELSE <<num \div 10, num % 10>>
RECURSIVE numeric_str_of(_)
numeric_str_of(nums) ==
  IF nums = <<>> THEN <<>> ELSE num_to_string(Head(nums)) \o numeric_str_of(Tail(nums))

\* str::parse::<u128> of a chunk of at most nine digits
RECURSIVE parse_from(_, _)
parse_from(part_str, acc) ==
  IF part_str = <<>> THEN acc ELSE parse_from(Tail(part_str), acc * 10 + Head(part_str))
parse(part_str) == parse_from(part_str, 0)

\* u128 arithmetic on two limbs of five decimal digits, <<hi, lo>> = hi * 10^5 + lo
LIMB == 100000
\* remainder * 10u128.pow(part_len) + part_num
wide_value(rem, part_len, part_num) ==
  LET p  == pow10(part_len)
      lo == rem * (p % LIMB) + (part_num % LIMB)
      hi == rem * (p \div LIMB) + (part_num \div LIMB) + (lo \div LIMB)
  IN <<hi, lo % LIMB>>
\* w % 97
wide_mod(w) == ((w[1] % MODULUS) * LIMB + w[2]) % MODULUS

\* chunk_wide with the multiplier fixed at 10^9, whatever the chunk's length
chunk_wide_fixed_pow(rem, chunk) == wide_value(rem, CHUNK_SIZE, parse(chunk))

\* one iteration of the loop: remainder = (remainder * 10^len + part_num) % 97
chunk_wide(rem, chunk) == wide_value(rem, Len(chunk), parse(chunk))
chunk_step(rem, chunk) == wide_mod(chunk_wide(rem, chunk))

\* .chunks(9): the k-th chunk (k from 0) of the digit string
nth_chunk(str, k) ==
  SubSeq(str, k * CHUNK_SIZE + 1,
         IF (k + 1) * CHUNK_SIZE < Len(str) THEN (k + 1) * CHUNK_SIZE ELSE Len(str))
num_chunks(str) == (Len(str) + CHUNK_SIZE - 1) \div CHUNK_SIZE

\* the whole loop, from remainder = 0
RECURSIVE mod97_from(_, _, _)
mod97_from(str, k, rem) ==
  IF k >= num_chunks(str) THEN rem
  ELSE mod97_from(str, k + 1, chunk_step(rem, nth_chunk(str, k)))
mod97(str) == mod97_from(str, 0, 0)

\* IBAN::is_valid
is_valid(self) ==
  LET s == to_string(self)
  IN IF str_len(s) < 4 THEN FALSE
     ELSE LET country_code == SubSeq(s, 1, 2)
              iban_length  == len(self)
          IN IF iban_length # expected_length(country_code) THEN FALSE
             ELSE LET rearranged_iban == SubSeq(s, 5, Len(s)) \o SubSeq(s, 1, 4)
                      numeric_iban    == numeric_iban_of(rearranged_iban)
                      str             == numeric_str_of(numeric_iban)
                  IN mod97(str) = 1

\* IBAN::as_bytes_unchecked
as_bytes_unchecked(self) == [i \in 1..Len(self) |-> char_as_u8(self[i])]

(***************************************************************************)
(* Serialize / Deserialize (mod.rs:155-198)                                *)
(***************************************************************************)
\* the UTF-8 bytes of a char (scalar values below 65536)
utf8_bytes(c) ==
  IF c < 128 THEN <<c>>
  ELSE IF c < 2048 THEN <<192 + (c \div 64), 128 + (c % 64)>>
  ELSE <<224 + (c \div 4096), 128 + ((c \div 64) % 64), 128 + (c % 64)>>
RECURSIVE utf8_encode(_)
utf8_encode(s) == IF s = <<>> THEN <<>> ELSE utf8_bytes(Head(s)) \o utf8_encode(Tail(s))

\* the format's decoding of a string payload into a &str (well-formed UTF-8)
RECURSIVE utf8_decode(_)
utf8_decode(b) ==
  IF b = <<>> THEN <<>>
  ELSE IF b[1] < 128 THEN <<b[1]>> \o utf8_decode(SubSeq(b, 2, Len(b)))
  ELSE IF b[1] < 224 THEN <<(b[1] - 192) * 64 + (b[2] - 128)>> \o utf8_decode(SubSeq(b, 3, Len(b)))
  ELSE <<(b[1] - 224) * 4096 + (b[2] - 128) * 64 + (b[3] - 128)>> \o utf8_decode(SubSeq(b, 4, Len(b)))

\* serialize with the padding trimmed off
serialize_trimmed(self) == SubSeq(self, 1, len(self))

\* Serialize::serialize: the 34 slots collected into one String, handed to serialize_str
serialize(self) == [i \in 1..Len(self) |-> self[i]]

\* IBANVisitor::visit_str
RECURSIVE visit_place(_, _, _)
visit_place(v, i, chars) ==
  IF i > Len(v) THEN chars ELSE visit_place(v, i + 1, [chars EXCEPT ![i] = v[i]])
visit_str(v) ==
  IF str_len(v) # IBAN_SIZE THEN Err("InvalidLength")
  ELSE Ok(visit_place(v, 1, new))

(***************************************************************************)
(* from_implementations.rs                                                 *)
(***************************************************************************)
\* place_text testing is_ascii in place of is_ascii_alphanumeric
RECURSIVE place_text_ascii(_, _, _)
place_text_ascii(str, i, self) ==
  IF i > Len(str) THEN Ok(self)
  ELSE IF ~is_ascii(str[i]) THEN Err("NotAnIBAN")
  ELSE place_text_ascii(str, i + 1, [self EXCEPT ![i] = str[i]])

\* the placement loop of the text constructors
RECURSIVE place_text(_, _, _)
place_text(str, i, self) ==
  IF i > Len(str) THEN Ok(self)
  ELSE IF ~is_ascii_alphanumeric(str[i]) THEN Err("NotAnIBAN")
  ELSE place_text(str, i + 1, [self EXCEPT ![i] = str[i]])

\* TryFrom<String> for IBAN
try_from_string(value) ==
  LET str == to_uppercase(replace_space(value))
  IN IF str_len(str) > IBAN_SIZE THEN Err("WrongIBANSize")
     ELSE place_text(str, 1, new)

\* try_from_str with the length test off by one (>= for >)
try_from_str_off_by_one(value) ==
  LET str == to_uppercase(replace_space(value))
  IN IF str_len(str) >= IBAN_SIZE THEN Err("WrongIBANSize")
     ELSE place_text(str, 1, new)

\* TryFrom<&str> for IBAN
try_from_str(value) ==
  LET str == to_uppercase(replace_space(value))
  IN IF str_len(str) > IBAN_SIZE THEN Err("WrongIBANSize")
     ELSE place_text(str, 1, new)

\* place_bytes testing is_ascii_alphanumeric in place of is_ascii
RECURSIVE place_bytes_alnum(_, _, _)
place_bytes_alnum(chars, i, self) ==
  IF i > Len(chars) THEN Ok(self)
  ELSE IF ~is_ascii_alphanumeric(chars[i]) THEN Err("NotAnIBAN")
  ELSE place_bytes_alnum(chars, i + 1, [self EXCEPT ![i] = chars[i]])

\* the placement loop of the byte-sequence constructor
RECURSIVE place_bytes(_, _, _)
place_bytes(chars, i, self) ==
  IF i > Len(chars) THEN Ok(self)
  ELSE IF ~is_ascii(chars[i]) THEN Err("NotAnIBAN")
  ELSE place_bytes(chars, i + 1, [self EXCEPT ![i] = chars[i]])

\* TryFrom<Vec<u8>> for IBAN
try_from_vec_u8(value) ==
  IF Len(value) > IBAN_SIZE THEN Err("WrongIBANSize")
  ELSE place_bytes([i \in 1..Len(value) |-> u8_as_char(value[i])], 1, new)

\* From<[char; 34]> for IBAN
from_array(value) == value

(***************************************************************************)
(* The inputs the operations are called with.                              *)
(***************************************************************************)
Repeat(c, n)     == [i \in 1..n |-> c]
Replace(s, p, c) == [s EXCEPT ![p] = c]
Prefix(s, n)     == SubSeq(s, 1, n)
Pad(s)           == [i \in 1..IBAN_SIZE |-> IF i <= Len(s) THEN s[i] ELSE NUL]

\* NUL, space, '!', '7', 'A', 'a', section sign (2 bytes), sharp s (2 bytes, uppercases to "SS"),
\* dotless i (2 bytes, uppercases to 'I'), euro sign (3 bytes);
\* 321 (L with stroke) is a char whose low byte is 'A'
TextChars == {0, 32, 33, 55, 65, 97, 167, 223, 305, 8364}
\* NUL, space, '!', '7', 'A', 'a', 200 (not ASCII)
ByteVals  == {0, 32, 33, 55, 65, 97, 200}

TestVectors ==
  { V_GB82, V_DE89, V_FR14, V_GR16, V_DE51, V_GB54, V_IB, V_DD14, V_DE22,
    V_NL66, V_DE15, V_AT14, V_invalid, V_punct, V_long, V_GB61, V_DE91 }
ValidVectors == {V_GB82, V_DE89, V_GR16}

TextInputs ==
  TestVectors
  \cup {Replace(V_GB82, p, c) : p \in 1..Len(V_GB82), c \in TextChars}
  \cup {Prefix(V_DE89, n) : n \in 0..Len(V_DE89)}
  \cup {Repeat(c, n) : c \in TextChars, n \in 0..MaxRepeat}

\* the bytes of a test literal without its spaces
BytesOf(v) == replace_space(v)

ByteInputs ==
  {BytesOf(v) : v \in TestVectors \ {V_punct}}
  \cup {Replace(BytesOf(V_GB82), p, b) : p \in 1..Len(BytesOf(V_GB82)), b \in ByteVals}
  \cup {BytesOf(v) \o <<NUL>> \o Repeat(b, k) : v \in ValidVectors, b \in ByteVals, k \in 0..MaxTail}
  \cup {Repeat(b, n) : b \in ByteVals, n \in 0..MaxRepeat}

ArrayInputs ==
  {Pad(BytesOf(v)) : v \in ValidVectors}
  \cup {Pad(Replace(BytesOf(V_DE89), p, c)) : p \in {1, 3, 22}, c \in TextChars}
  \cup {Pad(Repeat(c, n)) : c \in {65, 167, 321, 8364}, n \in {0, 1, 4, 17, 34}}

\* wire payloads: the UTF-8 bytes of a string
PayloadInputs ==
  {utf8_encode(s) : s \in ArrayInputs}
  \cup {utf8_encode(Repeat(c, n)) : c \in {0, 65, 167}, n \in {0, 17, 33, 34, 35}}

(***************************************************************************)
(* The operations as actions.  A constructor runs on a fresh input when no *)
(* value is held yet, or on the output the previous conversion returned.   *)
(***************************************************************************)
Init ==
  /\ pc = "start" /\ origin = "none" /\ mutated = FALSE
  /\ input = <<>> /\ res = "none" /\ iban = NoIBAN /\ saved = NoSaved
  /\ op = "none" /\ out_seq = <<>> /\ out_bool = FALSE /\ out_len = 0
  /\ numeric_iban_str = <<>> /\ chunk_idx = 0 /\ remainder = 0 /\ wide = <<0, 0>>

\* the state after a constructor returned r for argument value
Constructed(name, from, value, r) ==
  /\ op' = name
  /\ input' = value
  /\ res' = r.kind
  /\ saved' = IF pc = "start" THEN NoSaved
               ELSE [value |-> iban, origin |-> origin, mutated |-> mutated]
  /\ pc' = IF r.kind = "Ok" THEN "built" ELSE "failed"
  /\ origin' = IF r.kind = "Ok" THEN from ELSE "none"
  /\ iban' = r.value
  /\ mutated' = FALSE
  /\ out_seq' = <<>> /\ out_bool' = FALSE /\ out_len' = 0
  /\ UNCHANGED modVars

\* the arguments a constructor can be given: fresh ones, or the output of conversion `after`
\* of a value that was itself built from a fresh input (conversions are not chained further)
Source(fresh, after) ==
  IF pc = "start" THEN fresh
  ELSE IF pc = "built" /\ op = after /\ saved = NoSaved THEN {out_seq}
  ELSE {}

New ==
  /\ pc = "start"
  /\ Constructed("new", "new", <<>>, Ok(new))

TryFromString ==
  \E value \in Source(TextInputs, "to_string") :
    Constructed("try_from_string", "text", value, try_from_string(value))

TryFromStr ==
  \E value \in Source(TextInputs, "to_string") :
    Constructed("try_from_str", "text", value, try_from_str(value))

TryFromVecU8 ==
  \E value \in Source(ByteInputs, "as_bytes_unchecked") :
    Constructed("try_from_vec_u8", "bytes", value, try_from_vec_u8(value))

FromArray ==
  /\ pc = "start"
  /\ \E value \in ArrayInputs :
       Constructed("from_array", "array", value, Ok(from_array(value)))

Deserialize ==
  \E payload \in Source(PayloadInputs, "serialize") :
    Constructed("deserialize", "deser", payload, visit_str(utf8_decode(payload)))

\* a method call that returns a value and leaves the IBAN alone
Returned(name, s, b, n) ==
  /\ pc = "built"
  /\ op' = name
  /\ out_seq' = s /\ out_bool' = b /\ out_len' = n
  /\ UNCHANGED <<pc, origin, mutated, input, res, iban, saved>>
  /\ UNCHANGED modVars

LenCall          == pc = "built" /\ Returned("len", <<>>, FALSE, len(iban))
ToString         == pc = "built" /\ Returned("to_string", to_string(iban), FALSE, 0)
IsValid          == pc = "built" /\ Returned("is_valid", <<>>, is_valid(iban), 0)
AsBytesUnchecked == pc = "built" /\ Returned("as_bytes_unchecked", as_bytes_unchecked(iban), FALSE, 0)
Serialize        == pc = "built" /\ Returned("serialize", utf8_encode(serialize(iban)), FALSE, 0)

SetCountry ==
  /\ pc = "built"
  /\ \E country \in CountryCodes :
       /\ iban' = set_country(iban, country)
       /\ mutated' = TRUE
       /\ op' = "set_country"
       /\ out_seq' = <<>> /\ out_bool' = FALSE /\ out_len' = 0
       /\ UNCHANGED <<pc, origin, input, res, saved>>
       /\ UNCHANGED modVars

Next ==
  \/ New \/ TryFromString \/ TryFromStr \/ TryFromVecU8 \/ FromArray \/ Deserialize
  \/ LenCall \/ ToString \/ IsValid \/ AsBytesUnchecked \/ Serialize \/ SetCountry

Spec == Init /\ [][Next]_vars

(***************************************************************************)
(* The modulo loop of is_valid on its own, one chunk per step.             *)
(***************************************************************************)
SeedString(n, a, c) == [i \in 1..n |-> (a * (i - 1) + c) % 10]

\* the digit string is_valid builds for a text
digits_of(text) ==
  LET r == try_from_str(text)
      s == to_string(r.value)
  IN numeric_str_of(numeric_iban_of(SubSeq(s, 5, Len(s)) \o SubSeq(s, 1, 4)))

DigitStrings ==
  {SeedString(n, a, c) : n \in 0..MaxDigits, a \in 0..MaxSeed, c \in 0..9}
  \cup {digits_of(v) : v \in ValidVectors \cup {V_DE51, V_GB54, V_FR14}}

InitMod ==
  /\ pc = "start" /\ origin = "none" /\ mutated = FALSE
  /\ input = <<>> /\ res = "none" /\ iban = NoIBAN /\ saved = NoSaved
  /\ op = "none" /\ out_seq = <<>> /\ out_bool = FALSE /\ out_len = 0
  /\ numeric_iban_str \in DigitStrings
  /\ chunk_idx = 0 /\ remainder = 0 /\ wide = <<0, 0>>

ChunkStep ==
  /\ chunk_idx < num_chunks(numeric_iban_str)
  /\ wide' = chunk_wide(remainder, nth_chunk(numeric_iban_str, chunk_idx))
  /\ remainder' = chunk_step(remainder, nth_chunk(numeric_iban_str, chunk_idx))
  /\ chunk_idx' = chunk_idx + 1
  /\ UNCHANGED numeric_iban_str
  /\ UNCHANGED ibanVars

NextMod == ChunkStep

SpecMod == InitMod /\ [][NextMod]_vars

(***************************************************************************)
(* Vocabulary of the properties.                                           *)
(***************************************************************************)
TextOps == {"try_from_str", "try_from_string"}

\* the normalized form of a text: spaces removed, letters uppercased
Normalized(text) == to_uppercase(replace_space(text))

\* the text contains a disallowed character
HasDisallowed(text) == \E i \in 1..Len(Normalized(text)) : ~is_ascii_alphanumeric(Normalized(text)[i])

\* the NUL slots of a buffer form a suffix
PaddingIsSuffix(b) == \A i, j \in 1..Len(b) : (i < j /\ b[i] = NUL) => b[j] = NUL

AllAscii(b) == \A i \in 1..Len(b) : b[i] < 128

\* the IBAN held was built by the text constructor and not altered since
TextBuilt == pc = "built" /\ origin = "text" /\ ~mutated

\* ISO 7064 MOD 97-10 of a content string, character by character:
\* a digit appends one decimal digit to the number, a letter appends two
RECURSIVE RefMod97(_, _)
RefMod97(content, r) ==
  IF content = <<>> THEN r
  ELSE LET c == Head(content)
       IN IF c \in 48..57 THEN RefMod97(Tail(content), (r * 10 + (c - 48)) % 97)
          ELSE RefMod97(Tail(content), (r * 100 + (c - 55)) % 97)

RefValid(content) ==
  /\ Len(content) >= 4
  /\ \E k \in 1..Len(IBAN_LENGTHS) :
       /\ IBAN_LENGTHS[k][1] = content[1]
       /\ IBAN_LENGTHS[k][2] = content[2]
       /\ IBAN_LENGTHS[k][3] = Len(content)
  /\ RefMod97(SubSeq(content, 5, Len(content)) \o SubSeq(content, 1, 4), 0) = 1

\* 10^n modulo 97
RECURSIVE RefPow10Mod(_)
RefPow10Mod(n) ==
  IF n = 0 THEN 1
  ELSE IF n = 1 THEN 10
  ELSE (RefPow10Mod(n \div 2) * RefPow10Mod(n - (n \div 2))) % 97

\* the value of a digit string, read as one decimal integer, modulo 97:
\* value(left \o right) = value(left) * 10^Len(right) + value(right)
RECURSIVE RefDigitsMod(_)
RefDigitsMod(digits) ==
  IF digits = <<>> THEN 0
  ELSE IF Len(digits) = 1 THEN digits[1] % 97
  ELSE LET h     == Len(digits) \div 2
           left  == SubSeq(digits, 1, h)
           right == SubSeq(digits, h + 1, Len(digits))
       IN (RefDigitsMod(left) * RefPow10Mod(Len(right)) + RefDigitsMod(right)) % 97

(***************************************************************************)
(* Properties.                                                             *)
(***************************************************************************)
\* C1: every buffer produced by IBAN::new, the text constructors or the byte-sequence
\* constructor, and every buffer reached from one by set_country, has its NUL slots
\* only as a contiguous suffix.  (Violated: the byte-sequence constructor places NUL bytes.)
C1_PaddingOnlySuffix ==
  (pc = "built" /\ origin \in {"new", "text", "bytes"}) => PaddingIsSuffix(iban)

\* C2: for a buffer built by the text constructor, is_valid returns true exactly when the
\* content has at least 4 characters, its first two characters are a key of IBAN_LENGTHS
\* whose value is the content's length, and the rearranged, digit-mapped content is
\* congruent to 1 modulo 97.
C2_IsValidIff ==
  (TextBuilt /\ op = "is_valid") => (out_bool = RefValid(Normalized(input)))

C2_Witness ==
  /\ TextBuilt /\ op = "is_valid" /\ out_bool
  /\ Len(input) > len(iban)

C4_SizeError ==
  /\ (op \in TextOps /\ Len(Normalized(input)) > IBAN_SIZE) => res = "WrongIBANSize"
  /\ (op = "try_from_vec_u8" /\ Len(input) > IBAN_SIZE) => res = "WrongIBANSize"
  /\ (op \in TextOps /\ Len(Normalized(input)) <= IBAN_SIZE) => res # "WrongIBANSize"

\* C5: a text whose normalized form is ASCII alphanumeric and has n <= 34 characters is
\* accepted, the buffer holds the normalized characters in slots 0..n-1 and NUL in the
\* rest, and len() returns n.
C5_TextConstruction ==
  LET norm == Normalized(input)
  IN /\ (op \in TextOps /\ ~HasDisallowed(input) /\ Len(norm) <= IBAN_SIZE)
          => /\ res = "Ok"
             /\ Len(iban) = IBAN_SIZE
             /\ \A i \in 1..IBAN_SIZE : iban[i] = IF i <= Len(norm) THEN norm[i] ELSE NUL
     /\ (TextBuilt /\ op = "len") => out_len = Len(norm)

C5_Witness ==
  /\ TextBuilt /\ op = "len"
  /\ out_len = 22
  /\ Len(input) > 22
  /\ \E i \in 1..Len(input) : input[i] \in 97..122

\* C6: as_bytes_unchecked returns 34 bytes with the padding as zero bytes, and for a
\* buffer whose 34 slots are all ASCII the byte-sequence constructor applied to those
\* bytes succeeds and returns an equal buffer.
C6_ByteRoundTrip ==
  /\ (pc = "built" /\ op = "as_bytes_unchecked")
       => /\ Len(out_seq) = IBAN_SIZE
          /\ \A i \in 1..IBAN_SIZE : iban[i] = NUL => out_seq[i] = 0
  /\ (op = "try_from_vec_u8" /\ saved # NoSaved /\ AllAscii(saved.value))
       => (res = "Ok" /\ iban = saved.value)

C6_Witness ==
  /\ op = "try_from_vec_u8" /\ saved # NoSaved /\ AllAscii(saved.value)
  /\ len(saved.value) \in 1..(IBAN_SIZE - 1)
  /\ iban = saved.value

\* C7: the serialized form of a buffer produced by the text or byte-sequence constructor
\* is a payload of exactly 34 bytes, the slots in order with the padding as zero bytes,
\* and deserializing it succeeds and returns an equal buffer.
C7_SerdeRoundTrip ==
  /\ (pc = "built" /\ op = "serialize" /\ origin \in {"text", "bytes"} /\ ~mutated)
       => /\ Len(out_seq) = IBAN_SIZE
          /\ \A i \in 1..IBAN_SIZE : out_seq[i] = iban[i]
  /\ (op = "deserialize" /\ saved.origin \in {"text", "bytes"} /\ ~saved.mutated)
       => (res = "Ok" /\ iban = saved.value)

C7_Witness ==
  /\ op = "deserialize" /\ saved.origin \in {"text", "bytes"} /\ ~saved.mutated
  /\ len(saved.value) \in 1..(IBAN_SIZE - 1)
  /\ res = "Ok" /\ iban = saved.value

\* C8: for a buffer built by the text constructor, to_string returns the non-padding
\* prefix, len() characters long, and the text constructor applied to it returns the
\* same buffer.  (Violated: to_string keeps the NUL padding, which is ASCII.)
C8_ToStringContentOnly ==
  /\ (TextBuilt /\ op = "to_string")
       => /\ Len(out_seq) = len(iban)
          /\ out_seq = SubSeq(iban, 1, len(iban))
  /\ (op \in TextOps /\ saved.origin = "text" /\ ~saved.mutated)
       => (res = "Ok" /\ iban = saved.value)

\* C9: when the loop has consumed the whole digit string, in chunks of at most 9 digits,
\* the remainder is the value of the digit string modulo 97, and every value of
\* remainder * 10^len + part_num is below 97 * 10^9, hence below 2^64.
C9_ChunkedMod ==
  /\ (chunk_idx = num_chunks(numeric_iban_str)) => remainder = RefDigitsMod(numeric_iban_str)
  /\ wide[1] < 970000 /\ wide[2] < LIMB

C9_Witness ==
  /\ chunk_idx = num_chunks(numeric_iban_str)
  /\ Len(numeric_iban_str) = 68
  /\ numeric_iban_str[10] = 0
  /\ numeric_iban_str[64] # 0
  /\ remainder = RefDigitsMod(numeric_iban_str)
  /\ remainder # 0

\* C10: for a buffer from the text or byte-sequence constructor, if is_valid returns true
\* then every non-padding slot holds a digit or an uppercase letter and all padding is
\* trailing.  (Violated: the byte-sequence constructor admits any ASCII byte, and
\* is_valid drops what it cannot map.)
C10_ValidImpliesClean ==
  (pc = "built" /\ origin \in {"text", "bytes"} /\ ~mutated /\ op = "is_valid" /\ out_bool)
    => /\ \A i \in 1..IBAN_SIZE : iban[i] # NUL => (iban[i] \in 48..57 \/ iban[i] \in 65..90)
       /\ PaddingIsSuffix(iban)
====
